---- MODULE Spec2Model ----
(***************************************************************************)
(* cc-sync-session: the incremental sync engine (SessionSyncer::sync) over *)
(* the FileSystem trait, with the in-memory MockFileSystem and the         *)
(* RealFileSystem as the two storage implementations.                      *)
(*                                                                         *)
(* A file or directory name is a sequence of one-character strings; a      *)
(* path is the sequence of its components below "/" (Rust compares paths   *)
(* component-wise), so <<>> is the root directory.                         *)
(***************************************************************************)
EXTENDS Integers, Sequences, FiniteSets, TLC

\* ------------------------------------------------------------------ bounds
MaxTime == 2        \* timestamps and clock readings range over 0..MaxTime
MaxRuns == 2        \* sync calls in one behaviour
MaxEnv == 1         \* operations of other actors on the shared store
MaxFaults == 1      \* storage calls that fail with an I/O error
MaxFiles == 2       \* source files a behaviour starts with
MaxDepth == 4       \* components of the deepest directory sync is followed into
MaxInsideFiles == 1 \* source files when target_dir lies inside source_dir
MaxSegments == 2    \* segments of a path handed to the codec
MaxPieces == 3      \* pieces of a name handed to convert_hyphenated_path
MaxCodecFiles == 1  \* regular files at the paths handed to the codec
MaxRelSegments == 3 \* segments of a relative path handed to convert_directory_name

Times == 0..MaxTime

\* ------------------------------------------------------------------ strings
\* str::replace(pat, rep): every non-overlapping match, left to right.
RECURSIVE Replace(_, _, _)
Replace(s, pat, rep) ==
    IF Len(s) < Len(pat) \/ Len(pat) = 0 THEN s
    ELSE IF SubSeq(s, 1, Len(pat)) = pat
         THEN rep \o Replace(SubSeq(s, Len(pat) + 1, Len(s)), pat, rep)
         ELSE <<s[1]>> \o Replace(Tail(s), pat, rep)

\* str::contains(pat)
Contains(s, pat) ==
    \E i \in 1..(Len(s) - Len(pat) + 1) : SubSeq(s, i, i + Len(pat) - 1) = pat

\* let domain_extensions = [".com", ".org", ".net", ".io", ".dev", ".ai"];
domain_extensions ==
    << <<".", "c", "o", "m">>, <<".", "o", "r", "g">>, <<".", "n", "e", "t">>,
       <<".", "i", "o">>, <<".", "d", "e", "v">>, <<".", "a", "i">> >>

\* the placeholder "!DOT!"
Placeholder == <<"!", "D", "O", "T", "!">>

\* for ext in &domain_extensions { if result.contains(ext) { replace ... } }
RECURSIVE Protect(_, _)
Protect(s, i) ==
    IF i > Len(domain_extensions) THEN s
    ELSE LET ext == domain_extensions[i]
             r == IF Contains(s, ext)
                  THEN Replace(s, ext, Placeholder \o Tail(ext))
                  ELSE s
         IN Protect(r, i + 1)

\* SessionSyncer::convert_hyphenated_path
convert_hyphenated_path(name) ==
    LET protected == Protect(name, 1)
        slashed == Replace(protected, <<"-">>, <<"/">>)
        restored == Replace(slashed, Placeholder, <<".">>)
    IN IF Len(restored) > 0 /\ restored[1] = "/" THEN Tail(restored) ELSE restored

\* ------------------------------------------------------------------ paths
\* The components of a path string: split at "/", empty pieces and "."
\* pieces dropped (std::path::Path::components).
RECURSIVE SplitFrom(_, _, _)
SplitFrom(s, i, acc) ==
    LET keep(c) == IF c = <<>> \/ c = <<".">> THEN <<>> ELSE <<c>>
    IN IF i > Len(s) THEN keep(acc)
       ELSE IF s[i] = "/" THEN keep(acc) \o SplitFrom(s, i + 1, <<>>)
       ELSE SplitFrom(s, i + 1, Append(acc, s[i]))

Components(s) == SplitFrom(s, 1, <<>>)

IsAbsolute(s) == Len(s) > 0 /\ s[1] = "/"

\* Path::parent: None for the root
HasParent(p) == Len(p) > 0
Parent(p) == SubSeq(p, 1, Len(p) - 1)

StartsWith(p, base) == Len(base) <= Len(p) /\ SubSeq(p, 1, Len(base)) = base

\* Path::strip_prefix
strip_prefix(p, base) ==
    IF StartsWith(p, base)
    THEN [ok |-> TRUE, rel |-> SubSeq(p, Len(base) + 1, Len(p))]
    ELSE [ok |-> FALSE, rel |-> <<>>]

\* variant: every component that holds a hyphen is rewritten
ConvertedStrings_all(rel) ==
    [i \in 1..Len(rel) |->
        IF Contains(rel[i], <<"-">>)
        THEN convert_hyphenated_path(rel[i])
        ELSE rel[i]]

\* SessionSyncer::convert_directory_name: the strings pushed into
\* `components`, the leading one rewritten when it holds a hyphen.
ConvertedStrings(rel) ==
    [i \in 1..Len(rel) |->
        IF i = 1 /\ Contains(rel[i], <<"-">>)
        THEN convert_hyphenated_path(rel[i])
        ELSE rel[i]]

\* components.iter().collect::<PathBuf>(): PathBuf::push of each string; an
\* absolute string replaces what was pushed before it.
RECURSIVE Collect(_, _, _)
Collect(strs, i, acc) ==
    IF i > Len(strs) THEN acc
    ELSE Collect(strs, i + 1,
                 IF IsAbsolute(strs[i])
                 THEN [abs |-> TRUE, comps |-> Components(strs[i])]
                 ELSE [abs |-> acc.abs, comps |-> acc.comps \o Components(strs[i])])

\* variant: the leading component is not rewritten
convert_directory_name_raw(rel) == [abs |-> FALSE, comps |-> rel]

convert_directory_name(rel) ==
    Collect(ConvertedStrings(rel), 1, [abs |-> FALSE, comps |-> <<>>])

\* target_dir.join(&converted_path)
Join(dir, converted) ==
    IF converted.abs THEN converted.comps ELSE dir \o converted.comps

\* ------------------------------------------------------------------ store
\* One store: the map of files (content, modified time) and the set of
\* directories.  `kind` selects the FileSystem implementation.
Put(f, k, v) == [x \in (DOMAIN f) \cup {k} |-> IF x = k THEN v ELSE f[x]]
Drop(f, k) == [x \in (DOMAIN f) \ {k} |-> f[x]]

\* every non-empty prefix of p, p included
Prefixes(p) == {SubSeq(p, 1, i) : i \in 1..Len(p)}

\* an Err(..) result: the store is left as it was
Fail(st) == [ok |-> FALSE, st |-> st]

\* FileSystem::exists (neither implementation returns an error of its own)
exists(st, p) == p \in DOMAIN st.files \/ p \in st.directories

\* FileSystem::create_directory
MockCreateDirectory(st, p) ==
    [ok |-> TRUE, st |-> [st EXCEPT !.directories = @ \cup {p}]]

\* fs::create_dir_all: every missing ancestor is created; a file in the way
\* is an error.
RealCreateDirectory(st, p) ==
    IF \E q \in Prefixes(p) : q \in DOMAIN st.files THEN Fail(st)
    ELSE [ok |-> TRUE, st |-> [st EXCEPT !.directories = @ \cup Prefixes(p)]]

create_directory(kind, st, p) ==
    IF kind = "mock" THEN MockCreateDirectory(st, p) ELSE RealCreateDirectory(st, p)

\* FileSystem::copy_file
MockCopyFile(st, from, to) ==
    IF from \notin DOMAIN st.files THEN Fail(st)
    ELSE [ok |-> TRUE, st |-> [st EXCEPT !.files = Put(@, to, st.files[from])]]

\* create_dir_all(parent), then fs::copy: the copy is a new file written at
\* clock reading t.
RealCopyFile(st, from, to, t) ==
    LET made == IF HasParent(to) THEN RealCreateDirectory(st, Parent(to))
                ELSE [ok |-> TRUE, st |-> st]
    IN IF ~made.ok THEN Fail(st)
       ELSE IF from \notin DOMAIN st.files \/ to \in made.st.directories \/ ~HasParent(to)
       THEN Fail(made.st)
       ELSE [ok |-> TRUE,
             st |-> [made.st EXCEPT !.files =
                        Put(@, to, [content |-> st.files[from].content, modified |-> t])]]

\* variant: the copy marks the file it has read
copy_file_marking_source(kind, st, from, to, t) ==
    LET r == IF kind = "mock" THEN MockCopyFile(st, from, to)
             ELSE RealCopyFile(st, from, to, t)
    IN IF r.ok THEN [ok |-> TRUE, st |-> [r.st EXCEPT !.files[from].modified = 0]]
       ELSE r

copy_file(kind, st, from, to, t) ==
    IF kind = "mock" THEN MockCopyFile(st, from, to) ELSE RealCopyFile(st, from, to, t)

\* variant: the time given is dropped, the epoch is written
set_modified_time_epoch(kind, st, p, t) ==
    IF p \in DOMAIN st.files
    THEN [ok |-> TRUE, st |-> [st EXCEPT !.files[p].modified = 0]]
    ELSE Fail(st)

\* FileSystem::set_modified_time
set_modified_time(kind, st, p, t) ==
    IF p \in DOMAIN st.files
    THEN [ok |-> TRUE, st |-> [st EXCEPT !.files[p].modified = t]]
    ELSE IF kind = "real" /\ p \in st.directories THEN [ok |-> TRUE, st |-> st]
    ELSE Fail(st)

\* FileSystem::get_metadata; dt is the modified time reported for a
\* directory (the mock reports the clock, the real one the directory's own).
get_metadata(st, p, dt) ==
    IF p \in DOMAIN st.files
    THEN [ok |-> TRUE, modified |-> st.files[p].modified, is_directory |-> FALSE]
    ELSE IF p \in st.directories
    THEN [ok |-> TRUE, modified |-> dt, is_directory |-> TRUE]
    ELSE [ok |-> FALSE, modified |-> 0, is_directory |-> FALSE]

\* FileSystem::list_directory: the entries whose parent is p, as a set
MockListing(st, p) ==
    {[path |-> q, is_directory |-> FALSE] :
        q \in {x \in DOMAIN st.files : HasParent(x) /\ Parent(x) = p}}
    \cup
    {[path |-> q, is_directory |-> TRUE] :
        q \in {x \in st.directories : HasParent(x) /\ Parent(x) = p /\ x # p}}

\* fs::read_dir: one entry per name; metadata.is_dir() tells its kind
RealListing(st, p) ==
    {[path |-> q, is_directory |-> q \in st.directories] :
        q \in {x \in (DOMAIN st.files) \cup st.directories :
                  HasParent(x) /\ Parent(x) = p}}

list_directory(kind, st, p) ==
    IF p \notin st.directories THEN [ok |-> FALSE, entries |-> {}]
    ELSE [ok |-> TRUE,
          entries |-> IF kind = "mock" THEN MockListing(st, p) ELSE RealListing(st, p)]

\* the orders in which a listing can be returned
Orders(S) ==
    {s \in [1..Cardinality(S) -> S] : \A i, j \in 1..Cardinality(S) : s[i] = s[j] => i = j}

\* ------------------------------------------------------------------ engine
\* The value `f` of the operators below names the storage call that returns
\* an I/O error in this step ("none": no call does).  Each returns the
\* store it leaves, the directories it counted, the mutating storage calls
\* it issued and the storage calls that returned an error.

\* variant: the comparison is not strict
should_copy_file_ge(st, source, target, dt, f) ==
    IF f = "exists" THEN [ok |-> FALSE, copy |-> FALSE, failed |-> {"exists"}]
    ELSE IF ~exists(st, target) THEN [ok |-> TRUE, copy |-> TRUE, failed |-> {}]
    ELSE LET sm == get_metadata(st, source, dt)
             tm == get_metadata(st, target, dt)
         IN IF f = "get_metadata" \/ ~sm.ok \/ ~tm.ok
            THEN [ok |-> FALSE, copy |-> FALSE, failed |-> {"get_metadata"}]
            ELSE [ok |-> TRUE, copy |-> sm.modified >= tm.modified, failed |-> {}]

\* variant: an existing target is never copied again
should_copy_file_absent_only(st, source, target, dt, f) ==
    IF f = "exists" THEN [ok |-> FALSE, copy |-> FALSE, failed |-> {"exists"}]
    ELSE IF ~exists(st, target) THEN [ok |-> TRUE, copy |-> TRUE, failed |-> {}]
    ELSE LET sm == get_metadata(st, source, dt)
             tm == get_metadata(st, target, dt)
         IN IF f = "get_metadata" \/ ~sm.ok \/ ~tm.ok
            THEN [ok |-> FALSE, copy |-> FALSE, failed |-> {"get_metadata"}]
            ELSE [ok |-> TRUE, copy |-> FALSE, failed |-> {}]

\* SessionSyncer::should_copy_file
should_copy_file(st, source, target, dt, f) ==
    IF f = "exists" THEN [ok |-> FALSE, copy |-> FALSE, failed |-> {"exists"}]
    ELSE IF ~exists(st, target) THEN [ok |-> TRUE, copy |-> TRUE, failed |-> {}]
    ELSE LET sm == get_metadata(st, source, dt)
             tm == get_metadata(st, target, dt)
         IN IF f = "get_metadata" \/ ~sm.ok \/ ~tm.ok
            THEN [ok |-> FALSE, copy |-> FALSE, failed |-> {"get_metadata"}]
            ELSE [ok |-> TRUE, copy |-> sm.modified > tm.modified, failed |-> {}]

\* variant: dry_run is not consulted before create_directory
EnsureDirectory_always(kind, st, path, dry, f) ==
    IF f = "exists"
    THEN [ok |-> FALSE, st |-> st, created |-> 0, calls |-> 0, failed |-> {"exists"}]
    ELSE IF exists(st, path)
    THEN [ok |-> TRUE, st |-> st, created |-> 0, calls |-> 0, failed |-> {}]
    ELSE LET made == create_directory(kind, st, path)
         IN IF f = "create_directory" \/ ~made.ok
            THEN [ok |-> FALSE, st |-> st, created |-> 0, calls |-> 1,
                  failed |-> {"create_directory"}]
            ELSE [ok |-> TRUE, st |-> made.st, created |-> 1, calls |-> 1, failed |-> {}]

\* variant: a directory that is found is counted too
EnsureDirectory_counting_found(kind, st, path, dry, f) ==
    IF f = "exists"
    THEN [ok |-> FALSE, st |-> st, created |-> 0, calls |-> 0, failed |-> {"exists"}]
    ELSE IF exists(st, path)
    THEN [ok |-> TRUE, st |-> st, created |-> 1, calls |-> 0, failed |-> {}]
    ELSE IF dry
    THEN [ok |-> TRUE, st |-> st, created |-> 1, calls |-> 0, failed |-> {}]
    ELSE LET made == create_directory(kind, st, path)
         IN IF f = "create_directory" \/ ~made.ok
            THEN [ok |-> FALSE, st |-> st, created |-> 0, calls |-> 1,
                  failed |-> {"create_directory"}]
            ELSE [ok |-> TRUE, st |-> made.st, created |-> 1, calls |-> 1, failed |-> {}]

\* sync, lines 49-57 and 90-98: create the directory when it is absent
\* (unless dry_run) and count it.
EnsureDirectory(kind, st, path, dry, f) ==
    IF f = "exists"
    THEN [ok |-> FALSE, st |-> st, created |-> 0, calls |-> 0, failed |-> {"exists"}]
    ELSE IF exists(st, path)
    THEN [ok |-> TRUE, st |-> st, created |-> 0, calls |-> 0, failed |-> {}]
    ELSE IF dry
    THEN [ok |-> TRUE, st |-> st, created |-> 1, calls |-> 0, failed |-> {}]
    ELSE LET made == create_directory(kind, st, path)
         IN IF f = "create_directory" \/ ~made.ok
            THEN [ok |-> FALSE, st |-> st, created |-> 0, calls |-> 1,
                  failed |-> {"create_directory"}]
            ELSE [ok |-> TRUE, st |-> made.st, created |-> 1, calls |-> 1, failed |-> {}]

\* variant: the parent is taken to be there
EnsureParent_assumed(kind, st, target, f) ==
    [ok |-> TRUE, st |-> st, created |-> 0, calls |-> 0, failed |-> {}]

\* sync, lines 106-112: the parent of the target, created and counted when
\* absent.
EnsureParent(kind, st, target, f) ==
    IF ~HasParent(target)
    THEN [ok |-> TRUE, st |-> st, created |-> 0, calls |-> 0, failed |-> {}]
    ELSE EnsureDirectory(kind, st, Parent(target), FALSE, f)

\* variant: an error of set_modified_time is passed on like one of copy_file
CopyAndStamp_strict(kind, st, source, target, t, f) ==
    LET copied == copy_file(kind, st, source, target, t)
    IN IF f = "copy_file" \/ ~copied.ok
       THEN [ok |-> FALSE, st |-> IF f = "copy_file" THEN st ELSE copied.st,
             calls |-> 1, failed |-> {"copy_file"}]
       ELSE LET stamped == set_modified_time(kind, copied.st, target, t)
            IN IF f = "set_modified_time" \/ ~stamped.ok
               THEN [ok |-> FALSE, st |-> copied.st, calls |-> 2,
                     failed |-> {"set_modified_time"}]
               ELSE [ok |-> TRUE, st |-> stamped.st, calls |-> 2, failed |-> {}]

\* sync, lines 114-122: copy_file, then set_modified_time(now) whose error is
\* swallowed.
CopyAndStamp(kind, st, source, target, t, f) ==
    LET copied == copy_file(kind, st, source, target, t)
    IN IF f = "copy_file" \/ ~copied.ok
       THEN [ok |-> FALSE, st |-> IF f = "copy_file" THEN st ELSE copied.st,
             calls |-> 1, failed |-> {"copy_file"}]
       ELSE LET stamped == set_modified_time(kind, copied.st, target, t)
            IN IF f = "set_modified_time" \/ ~stamped.ok
               THEN [ok |-> TRUE, st |-> copied.st, calls |-> 2,
                     failed |-> {"set_modified_time"}]
               ELSE [ok |-> TRUE, st |-> stamped.st, calls |-> 2, failed |-> {}]

\* sync, lines 105-123: the non-dry-run copy of one file
CopyStep(kind, st, source, target, t, f) ==
    LET par == EnsureParent(kind, st, target, f)
    IN IF ~par.ok THEN par
       ELSE LET cp == CopyAndStamp(kind, par.st, source, target, t, f)
            IN [ok |-> cp.ok, st |-> cp.st, created |-> par.created,
                calls |-> par.calls + cp.calls, failed |-> cp.failed]

\* ------------------------------------------------------------------ state
VARIABLES
    fsKind,         \* "mock" or "real": the FileSystem behind the syncer
    target_dir,     \* the target_dir argument of sync
    files,          \* path -> [content, modified]
    directories,    \* set of paths
    now,            \* SystemTime::now()
    pc,             \* "idle", "loop", "entry", "copy", "done"
    dry_run,        \* options.dry_run of the current call
    verbose,        \* options.verbose of the current call
    logged,         \* log lines the current call has written
    queue,          \* dirs_to_process
    entries,        \* what is left of `entries` in the for loop
    cur,            \* the file about to be copied: [source, target]
    result,         \* the SyncResult being accumulated
    status,         \* "running", "Ok" or "Err"
    runs,           \* sync calls started so far
    check,          \* what the last should_copy_file call saw and answered
    mutations,      \* mutating storage calls issued by the current call
    failedOps,      \* storage calls that returned an error in the current call
    listing,        \* the list_directory calls of the current call, in order
    start,          \* the store and the clock when the current call began
    prev,           \* the summary of the call before the current one
    envLog,         \* what other actors did to the store
    faults,         \* injected I/O errors so far
    conv,           \* the path codec: the last call and what it returned
    cli             \* the sync command of the command line: how far it has got

vars == <<fsKind, target_dir, files, directories, now, pc, dry_run, verbose,
          logged, queue, entries, cur, result, status, runs, check, mutations,
          failedOps, listing, start, prev, envLog, faults, conv, cli>>

Store == [files |-> files, directories |-> directories]

\* ------------------------------------------------------------------ universe
source_dir == << <<"s">> >>
\* the two places a target_dir can be: beside the source directory, inside it
TargetOutside == << <<"t">> >>
TargetInside == source_dir \o << <<"t">> >>

\* The source files a behaviour can start with: a session directory, a
\* second one whose subdirectory maps to the same target directory, and a
\* file lying directly under the source root.
SessionFile == source_dir \o << <<"-", "a", "-", "b">>, <<"f">> >>
NestedFile == source_dir \o << <<"-", "a">>, <<"b">>, <<"f">> >>
RootFile == source_dir \o << <<"c", "-", "g">> >>
\* a name with two leading hyphens: it converts to the absolute path /s/e
EscapeFile == source_dir \o << <<"-", "-", "s", "-", "e">> >>
CandidateFiles == {SessionFile, NestedFile, RootFile, EscapeFile}

ContentOf(p) ==
    IF p = SessionFile THEN 1 ELSE IF p = NestedFile THEN 2
    ELSE IF p = RootFile THEN 3 ELSE 4

\* the directories above the files of F, from the source root down
Ancestors(F) ==
    {source_dir} \cup
    UNION {{q \in Prefixes(Parent(p)) : StartsWith(q, source_dir)} : p \in F}

NoCur == [source |-> <<>>, target |-> <<>>]
NoCheck == [verdict |-> "none"]
NoRun == [done |-> FALSE]
NoCall == [op |-> "none"]
NoCommand == [stage |-> "none"]
EmptyResult ==
    [files_copied |-> 0, files_skipped |-> 0, directories_created |-> 0, errors |-> <<>>]

Init ==
    /\ fsKind \in {"mock", "real"}
    /\ target_dir \in {TargetOutside, TargetInside}
    /\ \E F \in SUBSET CandidateFiles :
         /\ Cardinality(F) <=
               (IF target_dir = TargetInside THEN MaxInsideFiles ELSE MaxFiles)
         /\ files \in [F -> {[content |-> c, modified |-> t] : c \in 1..4, t \in 1..MaxTime}]
         /\ \A p \in F : files[p].content = ContentOf(p)
         /\ \E troot \in BOOLEAN :
              directories = Ancestors(F) \cup (IF troot THEN {target_dir} ELSE {})
    /\ now = 1
    /\ pc = "idle"
    /\ dry_run = FALSE
    /\ verbose = FALSE
    /\ logged = 0
    /\ queue = <<>>
    /\ entries = <<>>
    /\ cur = NoCur
    /\ result = EmptyResult
    /\ status = "Ok"
    /\ runs = 0
    /\ check = NoCheck
    /\ mutations = 0
    /\ failedOps = {}
    /\ listing = <<>>
    /\ start = [files |-> <<>>, directories |-> {}, now |-> 0]
    /\ prev = NoRun
    /\ envLog = <<>>
    /\ faults = 0
    /\ conv = NoCall
    /\ cli = NoCommand

Running == pc \in {"loop", "entry", "copy"}

\* The current call was disturbed: a storage call failed in it or another
\* actor touched the store while it ran.  Disturbed calls are explored as the
\* first call of a behaviour, and no further call follows one.
Disturbed ==
    \/ faults > 0
    \/ failedOps # {}
    \/ \E i \in 1..Len(envLog) : envLog[i].during

\* a fault is injected only into a call the step really makes
FaultOk(f, failed) ==
    f = "none" \/ (faults < MaxFaults /\ runs = 1 /\ envLog = <<>> /\ f \in failed)
FaultCount(f) == IF f = "none" THEN faults ELSE faults + 1

\* the current call was disturbed by another actor
Interfered == \E i \in 1..Len(envLog) : envLog[i].run = runs /\ envLog[i].during

Summary ==
    [done |-> TRUE, dry |-> dry_run, verbose |-> verbose, logged |-> logged,
     status |-> status, result |-> result,
     failedOps |-> failedOps, interfered |-> Interfered, start |-> start,
     listing |-> listing]

\* ------------------------------------------------------------------ sync
\* `if options.verbose { info!(..) }`: the lines such a block writes
LogIf(v, cond) == IF v /\ cond THEN 1 ELSE 0

\* variant: the directory is counted inside the verbose block
DirectoryReport_verbose_only(v, created) ==
    [created |-> IF v THEN created ELSE 0, lines |-> LogIf(v, created > 0)]

\* sync, lines 53-56 and 94-97: the directory is counted, and reported when
\* verbose
DirectoryReport(v, created) == [created |-> created, lines |-> LogIf(v, created > 0)]

\* the function returns Err(..): the call is over
Abort(st, failed, f) ==
    /\ files' = st.files
    /\ directories' = st.directories
    /\ pc' = "done"
    /\ status' = "Err"
    /\ queue' = <<>>
    /\ entries' = <<>>
    /\ cur' = NoCur
    /\ failedOps' = failed
    /\ faults' = FaultCount(f)

\* variant: the for loop is left after the first entry of a listing
NextEntry_first_only ==
    /\ entries' = <<>>
    /\ pc' = "loop"

\* the for loop moves to the next entry, or back to the while loop
NextEntry ==
    /\ entries' = Tail(entries)
    /\ pc' = IF Tail(entries) = <<>> THEN "loop" ELSE "entry"

\* sync, lines 46-61: a new call; the target directory is ensured and the
\* source directory queued.
Begin(d, v, f) ==
    /\ pc \in {"idle", "done"}
    /\ runs < MaxRuns
    /\ ~Disturbed
    /\ f # "none" => runs = 0
    /\ v => envLog = <<>>
    /\ LET r == EnsureDirectory(fsKind, Store, target_dir, d, f)
           drep == DirectoryReport(v, r.created)
       IN /\ f = "none" \/ (faults < MaxFaults /\ f \in r.failed)
          /\ runs' = runs + 1
          /\ dry_run' = d
          /\ verbose' = v
          /\ logged' = IF r.ok THEN drep.lines ELSE 0
          /\ prev' = IF pc = "done" THEN Summary ELSE NoRun
          /\ start' = [files |-> files, directories |-> directories, now |-> now]
          /\ check' = NoCheck
          /\ mutations' = r.calls
          /\ listing' = <<>>
          /\ IF r.ok
             THEN /\ files' = r.st.files
                  /\ directories' = r.st.directories
                  /\ result' = [EmptyResult EXCEPT !.directories_created = drep.created]
                  /\ queue' = <<source_dir>>
                  /\ pc' = "loop"
                  /\ status' = "running"
                  /\ failedOps' = {}
                  /\ faults' = FaultCount(f)
                  /\ UNCHANGED <<entries, cur>>
             ELSE /\ result' = EmptyResult
                  /\ Abort(r.st, r.failed, f)
    /\ UNCHANGED <<fsKind, target_dir, conv, cli, now, envLog>>

\* sync, line 143: the queue is empty, Ok(result) is returned
Return ==
    /\ pc = "loop"
    /\ queue = <<>>
    /\ pc' = "done"
    /\ status' = "Ok"
    /\ check' = NoCheck
    /\ UNCHANGED <<fsKind, target_dir, conv, cli, files, directories, now, dry_run,
                   verbose, logged, queue, entries, cur,
                   result, runs, mutations, failedOps, listing, start, prev,
                   envLog, faults>>

\* variant: a listing error drops what is queued
SkipDirectory_all(q) == <<>>

\* sync, line 75: `continue` after a listing error; the rest of the queue
\* is kept
SkipDirectory(q) == Tail(q)

\* sync, lines 63-77: the next directory is taken from the queue and listed;
\* a listing error skips it.  f = "foreign_entry": the storage returns an
\* entry that does not lie under the directory asked for.
PopDir(f) ==
    /\ pc = "loop"
    /\ queue # <<>>
    /\ LET current_dir == Head(queue)
           lst == list_directory(fsKind, Store, current_dir)
           failed == IF f = "list_directory" \/ ~lst.ok THEN {"list_directory"} ELSE {}
       IN /\ f = "foreign_entry" \/ FaultOk(f, failed)
          /\ f = "foreign_entry" =>
                faults < MaxFaults /\ runs = 1 /\ envLog = <<>> /\ lst.ok
          /\ queue' = IF failed # {} THEN SkipDirectory(queue) ELSE Tail(queue)
          /\ failedOps' = failedOps \cup failed
          /\ faults' = FaultCount(f)
          /\ listing' = Append(listing,
                 [dir |-> current_dir, ok |-> failed = {},
                  files |-> IF failed # {} THEN {}
                            ELSE IF f = "foreign_entry" THEN {<< <<"x">> >>}
                            ELSE {e.path : e \in {x \in lst.entries : ~x.is_directory}}])
          /\ logged' = logged + LogIf(verbose, failed # {})
          /\ IF failed # {}
             THEN UNCHANGED <<entries, pc>>
             ELSE /\ entries' \in
                        IF f = "foreign_entry"
                        THEN {<<[path |-> << <<"x">> >>, is_directory |-> FALSE]>>}
                        ELSE Orders(lst.entries)
                  /\ pc' = IF entries' = <<>> THEN "loop" ELSE "entry"
    /\ check' = NoCheck
    /\ UNCHANGED <<fsKind, target_dir, conv, cli, files, directories, now, dry_run,
                   verbose, cur, result, status,
                   runs, mutations, start, prev, envLog>>

\* what should_copy_file is asked and what it answers, for the record
Observation(st, source, target, dt, sc) ==
    [verdict |-> IF ~sc.ok THEN "error" ELSE IF sc.copy THEN "copy" ELSE "skip",
     source |-> source,
     target |-> target,
     target_exists |-> exists(st, target),
     source_found |-> exists(st, source),
     source_modified |-> get_metadata(st, source, dt).modified,
     target_modified |-> get_metadata(st, target, dt).modified]

\* sync, lines 79-104 and 124-139: one entry of the listing.  A directory is
\* mirrored and queued; a file is checked and then skipped, counted (dry
\* run), recorded as an error, or handed to the copy.
ProcessEntry(f, dt) ==
    /\ pc = "entry"
    /\ LET entry == Head(entries)
           rp == strip_prefix(entry.path, source_dir)
           target_path == Join(target_dir, convert_directory_name(rp.rel))
       IN IF ~rp.ok
          THEN /\ f = "none"
               /\ Abort(Store, failedOps \cup {"strip_prefix"}, f)
               /\ check' = NoCheck
               /\ UNCHANGED <<result, mutations, logged>>
          ELSE IF entry.is_directory
          THEN LET r == EnsureDirectory(fsKind, Store, target_path, dry_run, f)
                   drep == DirectoryReport(verbose, r.created)
               IN /\ FaultOk(f, r.failed)
                  /\ Len(target_path) <= MaxDepth
                  /\ mutations' = mutations + r.calls
                  /\ check' = NoCheck
                  /\ logged' = IF r.ok THEN logged + drep.lines ELSE logged
                  /\ IF r.ok
                     THEN /\ files' = r.st.files
                          /\ directories' = r.st.directories
                          /\ result' = [result EXCEPT
                                 !.directories_created = @ + drep.created]
                          /\ queue' = Append(queue, entry.path)
                          /\ NextEntry
                          /\ faults' = FaultCount(f)
                          /\ UNCHANGED <<cur, status, failedOps>>
                     ELSE /\ Abort(r.st, failedOps \cup r.failed, f)
                          /\ UNCHANGED result
          ELSE LET sc == should_copy_file(Store, entry.path, target_path, dt, f)
               IN /\ FaultOk(f, sc.failed)
                  /\ check' = Observation(Store, entry.path, target_path, dt, sc)
                  /\ failedOps' = failedOps \cup sc.failed
                  /\ faults' = FaultCount(f)
                  /\ UNCHANGED <<files, directories, queue, status, mutations>>
                  /\ IF sc.ok /\ sc.copy /\ ~dry_run
                     THEN /\ cur' = [source |-> entry.path, target |-> target_path]
                          /\ pc' = "copy"
                          /\ UNCHANGED <<entries, result, logged>>
                     ELSE /\ result' =
                               IF ~sc.ok
                               THEN [result EXCEPT !.errors = Append(@, entry.path)]
                               ELSE IF sc.copy
                               THEN [result EXCEPT !.files_copied = @ + 1]
                               ELSE [result EXCEPT !.files_skipped = @ + 1]
                          /\ logged' = logged + LogIf(verbose, sc.ok)
                          /\ NextEntry
                          /\ UNCHANGED cur
    /\ UNCHANGED <<fsKind, target_dir, conv, cli, now, dry_run, verbose, runs, listing,
                   start, prev, envLog>>

\* sync, lines 105-128 when dry_run is false: the parent is ensured, the file
\* copied and stamped with the clock, and counted.
CopyFile(f) ==
    /\ pc = "copy"
    /\ LET r == CopyStep(fsKind, Store, cur.source, cur.target, now, f)
       IN /\ FaultOk(f, r.failed)
          /\ mutations' = mutations + r.calls
          /\ logged' = IF r.ok
                       THEN logged + LogIf(verbose, r.failed # {}) + LogIf(verbose, TRUE)
                       ELSE logged
          /\ IF r.ok
             THEN /\ files' = r.st.files
                  /\ directories' = r.st.directories
                  /\ result' = [result EXCEPT
                         !.files_copied = @ + 1,
                         !.directories_created = @ + r.created]
                  /\ cur' = NoCur
                  /\ NextEntry
                  /\ failedOps' = failedOps \cup r.failed
                  /\ faults' = FaultCount(f)
                  /\ UNCHANGED <<queue, status>>
             ELSE /\ Abort(r.st, failedOps \cup r.failed, f)
                  /\ UNCHANGED result
    /\ UNCHANGED <<fsKind, target_dir, conv, cli, now, dry_run, verbose, runs, check,
                   listing, start, prev, envLog>>

\* ------------------------------------------------------------------ others
\* Other actors share the store (the mock is an Arc<Mutex<..>> handed out by
\* clone(); the real one is the machine's file system) and the clock runs.
\* They are followed against calls that are not verbose, from the first call
\* on; a file is removed at any moment, rewritten or re-dated between calls.
Logged(op, p) ==
    /\ Len(envLog) < MaxEnv
    /\ Running => runs = 1 /\ faults = 0 /\ ~verbose
    /\ ~Running => runs >= 1 /\ runs < MaxRuns /\ ~Disturbed /\ ~verbose
    /\ envLog' = Append(envLog,
          [op |-> op, path |-> p, run |-> runs, during |-> Running,
           pending |-> \/ \E i \in 1..Len(entries) : entries[i].path = p
                       \/ cur.source = p])

\* (the clock is read as constant for the length of one call)
Tick ==
    /\ now < MaxTime
    /\ ~Running
    /\ now' = now + 1
    /\ UNCHANGED <<fsKind, target_dir, conv, cli, files, directories, pc, dry_run,
                   verbose, logged, queue, entries, cur,
                   result, status, runs, check, mutations, failedOps, listing,
                   start, prev, envLog, faults>>

UnderSource(p) == StartsWith(p, source_dir)
UnderTarget(p) == StartsWith(p, target_dir)

\* a source file is deleted
RemoveSource(p) ==
    /\ p \in DOMAIN files /\ UnderSource(p)
    /\ Logged("remove", p)
    /\ files' = Drop(files, p)
    /\ UNCHANGED <<fsKind, target_dir, conv, cli, directories, now, pc, dry_run,
                   verbose, logged, queue, entries, cur,
                   result, status, runs, check, mutations, failedOps, listing,
                   start, prev, faults>>

\* a source file is rewritten between two calls: new content, modified now
ModifySource(p) ==
    /\ p \in DOMAIN files /\ UnderSource(p)
    /\ ~Running
    /\ Logged("modify", p)
    /\ files' = [files EXCEPT ![p] = [content |-> files[p].content + 10, modified |-> now]]
    /\ UNCHANGED <<fsKind, target_dir, conv, cli, directories, now, pc, dry_run,
                   verbose, logged, queue, entries, cur,
                   result, status, runs, check, mutations, failedOps, listing,
                   start, prev, faults>>

\* the modified time of a target file is set back between two calls
\* (filetime::set_file_mtime in the tests)
SetTargetTime(p, t) ==
    /\ p \in DOMAIN files /\ UnderTarget(p)
    /\ t < files[p].modified
    /\ ~Running
    /\ Logged("set_time", p)
    /\ files' = [files EXCEPT ![p].modified = t]
    /\ UNCHANGED <<fsKind, target_dir, conv, cli, directories, now, pc, dry_run,
                   verbose, logged, queue, entries, cur,
                   result, status, runs, check, mutations, failedOps, listing,
                   start, prev, faults>>

\* ------------------------------------------------------------------ spec
BeginFaults == {"none", "exists", "create_directory"}
ListFaults == {"none", "list_directory", "foreign_entry"}
EntryFaults == {"none", "exists", "create_directory", "get_metadata"}
CopyFaults == {"none", "exists", "create_directory", "copy_file", "set_modified_time"}

\* the modified time a directory can report
DirTimes == IF fsKind = "mock" THEN {now} ELSE 0..now

Next ==
    \/ \E d \in BOOLEAN, v \in BOOLEAN, f \in BeginFaults : Begin(d, v, f)
    \/ Return
    \/ \E f \in ListFaults : PopDir(f)
    \/ \E f \in EntryFaults, dt \in DirTimes : ProcessEntry(f, dt)
    \/ \E f \in CopyFaults : CopyFile(f)
    \/ Tick
    \/ \E p \in DOMAIN files : RemoveSource(p)
    \/ \E p \in DOMAIN files : ModifySource(p)
    \/ \E p \in DOMAIN files, t \in Times : SetTargetTime(p, t)

Spec == Init /\ [][Next]_vars

\* ------------------------------------------------------------------ codec
\* str::trim_start_matches('/')
RECURSIVE TrimStart(_)
TrimStart(s) == IF Len(s) > 0 /\ s[1] = "/" THEN TrimStart(Tail(s)) ELSE s

\* Path::is_file: the path names a regular file of the machine's file system
is_file(st, path) == Components(path) \in DOMAIN st.files

\* variant: no leading hyphen is added
dir_path_to_claude_code_stype_bare(st, dir_path) ==
    IF ~IsAbsolute(dir_path)
    THEN [ok |-> FALSE, out |-> <<>>, err |-> "Path must be absolute"]
    ELSE IF is_file(st, dir_path)
    THEN [ok |-> FALSE, out |-> <<>>, err |-> "Path must be a directory, not a file"]
    ELSE [ok |-> TRUE, err |-> "",
          out |-> Replace(Replace(TrimStart(dir_path), <<"/">>, <<"-">>),
                          <<".">>, <<"-">>)]

\* file_path_converter.rs, lines 4-21
dir_path_to_claude_code_stype(st, dir_path) ==
    IF ~IsAbsolute(dir_path)
    THEN [ok |-> FALSE, out |-> <<>>, err |-> "Path must be absolute"]
    ELSE IF is_file(st, dir_path)
    THEN [ok |-> FALSE, out |-> <<>>, err |-> "Path must be a directory, not a file"]
    ELSE [ok |-> TRUE, err |-> "",
          out |-> <<"-">> \o Replace(Replace(TrimStart(dir_path), <<"/">>, <<"-">>),
                                     <<".">>, <<"-">>)]

\* variant: no leading separator is put before the path
claude_code_stype_to_file_path_relative(code_stype) ==
    LET without_leading_dash ==
            IF Len(code_stype) > 0 /\ code_stype[1] = "-" THEN Tail(code_stype)
            ELSE code_stype
    IN {Replace(without_leading_dash, <<"-">>, <<"/">>)}

\* file_path_converter.rs, lines 23-41: the set holding the one base path
claude_code_stype_to_file_path(code_stype) ==
    LET without_leading_dash ==
            IF Len(code_stype) > 0 /\ code_stype[1] = "-" THEN Tail(code_stype)
            ELSE code_stype
    IN {<<"/">> \o Replace(without_leading_dash, <<"-">>, <<"/">>)}

\* PathBuf equality: the same root and the same components
SamePath(a, b) == IsAbsolute(a) = IsAbsolute(b) /\ Components(a) = Components(b)

\* The paths handed to the codec: up to MaxSegments segments joined by "/",
\* absolute or relative.
Segments ==
    {<<>>, <<"a">>, <<"a", ".", "b">>, <<".", "a">>, <<"a", "-", "b">>}
RECURSIVE JoinSegments(_)
JoinSegments(segs) ==
    IF segs = <<>> THEN <<>>
    ELSE IF Len(segs) = 1 THEN segs[1]
    ELSE segs[1] \o <<"/">> \o JoinSegments(Tail(segs))
SegmentLists == UNION {[1..n -> Segments] : n \in 0..MaxSegments}
CodecPaths ==
    {JoinSegments(segs) : segs \in SegmentLists}
    \cup {<<"/">> \o JoinSegments(segs) : segs \in SegmentLists}

\* The names handed to convert_hyphenated_path: up to MaxPieces pieces.
NamePieces ==
    {<<"-">>, <<"a">>, <<".">>, <<".", "i", "o">>, <<".", "c", "o", "m">>,
     <<"!", "D", "O", "T">>, <<"!", "D", "O", "T", "!">>}
RECURSIVE Concat(_)
Concat(ps) == IF ps = <<>> THEN <<>> ELSE ps[1] \o Concat(Tail(ps))
SegmentNames == {Concat(ps) : ps \in UNION {[1..n -> NamePieces] : n \in 1..MaxPieces}}

\* the state of the engine but for the store
engineVars == <<fsKind, target_dir, now, pc, dry_run, verbose, logged, queue,
                entries, cur, result, status, runs, check, mutations, failedOps,
                listing, start, prev, envLog, faults>>

\* everything but the store and the codec's own record
syncVars == <<engineVars, cli>>

\* the outcome of the call before this one, when it encoded the same path
Earlier(p, r) ==
    IF conv.op = "encode" /\ conv.input = p
    THEN [again |-> TRUE, ok |-> conv.ok, out |-> conv.out, err |-> conv.err]
    ELSE [again |-> FALSE, ok |-> r.ok, out |-> r.out, err |-> r.err]

\* dir_path_to_claude_code_stype(p) is called: for the first time, or once
\* more with the path of the call before
EncodeCall(p) ==
    /\ conv.op = "none" \/ (conv.op = "encode" /\ conv.input = p)
    /\ LET r == dir_path_to_claude_code_stype(Store, p)
       IN conv' = [op |-> "encode", input |-> p, ok |-> r.ok, out |-> r.out,
                   err |-> r.err, earlier |-> Earlier(p, r)]
    /\ UNCHANGED <<syncVars, files, directories>>

\* claude_code_stype_to_file_path is called with the token just produced
DecodeCall ==
    /\ conv.op = "encode" /\ conv.ok
    /\ conv' = [op |-> "decode", input |-> conv.out, origin |-> conv.input,
                out |-> claude_code_stype_to_file_path(conv.out)]
    /\ UNCHANGED <<syncVars, files, directories>>

\* The tokens handed to claude_code_stype_to_file_path on their own: with
\* one leading hyphen, with none, with two, and the empty one.
Tokens ==
    {<<>>, <<"-">>, <<"a">>, <<"-", "a">>, <<"-", "-", "a">>, <<"a", "-", "b">>,
     <<"-", "a", "-", "b">>, <<"-", "a", "-", "-", "b">>, <<"a", "-">>,
     <<"-", "a", ".", "b">>}

\* claude_code_stype_to_file_path(token) is called
DecodeTokenCall(token) ==
    /\ conv.op = "none"
    /\ conv' = [op |-> "decode_token", input |-> token,
                out |-> claude_code_stype_to_file_path(token)]
    /\ UNCHANGED <<syncVars, files, directories>>

\* sync meets the directory named by the token just produced:
\* convert_hyphenated_path(token) is called
ConvertTokenCall ==
    /\ conv.op = "encode" /\ conv.ok
    /\ conv' = [op |-> "convert_token", input |-> conv.out, origin |-> conv.input,
                out |-> convert_hyphenated_path(conv.out)]
    /\ UNCHANGED <<syncVars, files, directories>>

\* convert_hyphenated_path(name) is called
ConvertCall(name) ==
    /\ conv.op = "none"
    /\ conv' = [op |-> "convert", input |-> name, out |-> convert_hyphenated_path(name)]
    /\ UNCHANGED <<syncVars, files, directories>>

\* The source-relative paths handed to convert_directory_name: up to
\* MaxRelSegments names, with and without hyphens.
RelNames ==
    {<<"a">>, <<"a", "-", "b">>, <<"-", "a", "-", "b">>, <<"-", "-", "s", "-", "e">>}
RelPaths == UNION {[1..n -> RelNames] : n \in 1..MaxRelSegments}

\* sync, lines 81-86: convert_directory_name(relative_path) and
\* target_dir.join(&converted_path)
ConvertDirectoryCall(rel) ==
    /\ conv.op = "none"
    /\ LET converted == convert_directory_name(rel)
       IN conv' = [op |-> "convert_directory", input |-> rel,
                   out |-> converted, target_path |-> Join(target_dir, converted)]
    /\ UNCHANGED <<syncVars, files, directories>>

\* someone writes a regular file at the path that was encoded last
WriteFileAt ==
    /\ conv.op = "encode" /\ IsAbsolute(conv.input)
    /\ Components(conv.input) # <<>>
    /\ Cardinality(DOMAIN files) < MaxCodecFiles
    /\ Components(conv.input) \notin DOMAIN files
    /\ files' = Put(files, Components(conv.input), [content |-> 1, modified |-> now])
    /\ UNCHANGED <<syncVars, directories, conv>>

\* someone deletes it
DeleteFileAt ==
    /\ conv.op = "encode"
    /\ Components(conv.input) \in DOMAIN files
    /\ files' = Drop(files, Components(conv.input))
    /\ UNCHANGED <<syncVars, directories, conv>>

CodecInit ==
    /\ fsKind = "real"
    /\ target_dir = TargetOutside
    /\ files = <<>>
    /\ directories = {}
    /\ now = 1
    /\ pc = "idle"
    /\ dry_run = FALSE
    /\ verbose = FALSE
    /\ logged = 0
    /\ queue = <<>>
    /\ entries = <<>>
    /\ cur = NoCur
    /\ result = EmptyResult
    /\ status = "Ok"
    /\ runs = 0
    /\ check = NoCheck
    /\ mutations = 0
    /\ failedOps = {}
    /\ listing = <<>>
    /\ start = [files |-> <<>>, directories |-> {}, now |-> 0]
    /\ prev = NoRun
    /\ envLog = <<>>
    /\ faults = 0
    /\ conv = NoCall
    /\ cli = NoCommand

CodecNext ==
    \/ \E p \in CodecPaths : EncodeCall(p)
    \/ DecodeCall
    \/ \E token \in Tokens : DecodeTokenCall(token)
    \/ ConvertTokenCall
    \/ \E name \in SegmentNames : ConvertCall(name)
    \/ \E rel \in RelPaths : ConvertDirectoryCall(rel)
    \/ WriteFileAt
    \/ DeleteFileAt

CodecSpec == CodecInit /\ [][CodecNext]_vars

\* ----------------------------------------------------------- command line
\* the names main.rs joins onto its paths
DotGit == <<".", "g", "i", "t">>
DotClaude == <<".", "c", "l", "a", "u", "d", "e">>
CcssSessions == <<"c", "c", "s", "s">>
Projects == <<"p", "r", "o", "j">>

\* Option<PathBuf>
None == [some |-> FALSE, path |-> <<>>]
Some(path) == [some |-> TRUE, path |-> path]

\* PathBuf::display of an absolute path given by its components
RECURSIVE PathString(_)
PathString(comps) ==
    IF comps = <<>> THEN <<>> ELSE <<"/">> \o comps[1] \o PathString(Tail(comps))

\* Path::exists and Path::is_dir on the machine's file system
PathExists(st, comps) == comps = <<>> \/ exists(st, comps)
PathIsDir(st, comps) == comps = <<>> \/ comps \in st.directories

\* find_repo_dir, lines 48-70: the nearest directory, from `start` upwards,
\* that holds both .git and .claude/ccss_sessions
find_repo_dir(st, from) ==
    LET hits == {i \in 0..Len(from) :
                    /\ PathExists(st, SubSeq(from, 1, i) \o <<DotGit>>)
                    /\ PathExists(st, SubSeq(from, 1, i) \o <<DotClaude, CcssSessions>>)}
    IN IF hits = {} THEN None
       ELSE Some(SubSeq(from, 1, CHOOSE i \in hits : \A j \in hits : j <= i))

\* variant: the target directory is not looked at
ValidateDirectories_source_only(st, source, target) ==
    IF ~PathExists(st, source) THEN "Source directory does not exist"
    ELSE IF ~PathIsDir(st, source) THEN "Source path is not a directory"
    ELSE ""

\* sync_command, lines 157-168: the message of the check that fails, "" when
\* all of them pass
ValidateDirectories(st, source, target) ==
    IF ~PathExists(st, source) THEN "Source directory does not exist"
    ELSE IF ~PathIsDir(st, source) THEN "Source path is not a directory"
    ELSE IF ~PathExists(st, target) THEN "Target directory does not exist"
    ELSE ""

\* the command has returned Err(message)
Failed(message) == [cli EXCEPT !.stage = "failed", !.error = message]

cliFrame == <<engineVars, conv, files, directories>>

\* sync_command, lines 119-128: the repository given with -r, or the one
\* found from the current directory upwards
DetermineRepository ==
    /\ cli.stage = "start"
    /\ LET found == IF cli.repo_arg.some THEN cli.repo_arg
                    ELSE IF ~cli.cwd.some THEN None
                    ELSE LET r == find_repo_dir(Store, Components(cli.cwd.path))
                         IN IF r.some THEN Some(PathString(r.path)) ELSE None
       IN cli' = IF found.some
                 THEN [cli EXCEPT !.stage = "repository", !.repo_dir = found.path]
                 ELSE IF ~cli.repo_arg.some /\ ~cli.cwd.some
                 THEN Failed("Failed to get current directory")
                 ELSE Failed("No repository with .claude/ccss_sessions found")
    /\ UNCHANGED cliFrame

\* sync_command, line 131: the repository path is encoded
EncodeRepository ==
    /\ cli.stage = "repository"
    /\ LET r == dir_path_to_claude_code_stype(Store, cli.repo_dir)
       IN cli' = IF r.ok
                 THEN [cli EXCEPT !.stage = "encoded", !.repo_dir_cc_style = r.out]
                 ELSE Failed(r.err)
    /\ UNCHANGED cliFrame

\* sync_command, lines 134-155: the source root given with -s, or
\* $CC_SYNC_SESSION_SOURCE_DIR, or ~/.claude/projects; the source and the
\* target directory
DetermineSource ==
    /\ cli.stage = "encoded"
    /\ LET root == IF cli.source_arg.some THEN cli.source_arg
                   ELSE IF cli.env.some THEN cli.env
                   ELSE IF cli.home.some
                   THEN Some(cli.home.path \o PathString(<<DotClaude, Projects>>))
                   ELSE None
       IN cli' = IF ~root.some THEN Failed("Failed to get home directory")
                 ELSE [cli EXCEPT
                          !.stage = "directories",
                          !.source_root_dir = root.path,
                          !.source_dir =
                              Join(Components(root.path),
                                   [abs |-> IsAbsolute(cli.repo_dir_cc_style),
                                    comps |-> Components(cli.repo_dir_cc_style)]),
                          !.target_dir =
                              Components(cli.repo_dir) \o <<DotClaude, CcssSessions>>]
    /\ UNCHANGED cliFrame

\* sync_command, lines 157-168
Validate ==
    /\ cli.stage = "directories"
    /\ LET message == ValidateDirectories(Store, cli.source_dir, cli.target_dir)
       IN cli' = IF message = "" THEN [cli EXCEPT !.stage = "validated"]
                 ELSE Failed(message)
    /\ UNCHANGED cliFrame

\* sync_command, lines 179-189: the syncer is made and called
CallSync ==
    /\ cli.stage = "validated"
    /\ cli' = [cli EXCEPT
                  !.stage = "called",
                  !.called = TRUE,
                  !.args = [source_dir |-> cli.source_root_dir,
                            prefix |-> cli.repo_dir_cc_style,
                            target_dir |-> cli.target_dir,
                            dry_run |-> cli.dry_run]]
    /\ UNCHANGED cliFrame

\* the repository /r with the working directory /r/w, the source root /s,
\* the home directory /h, and the regular file /f
RepoPath == <<"/", "r">>
WorkPath == <<"/", "r", "/", "w">>
FilePath == <<"/", "f">>
SourceRootPath == <<"/", "s">>
HomePath == <<"/", "h">>
HomeProjects == Components(HomePath) \o <<DotClaude, Projects>>
RepoToken == <<"-", "r">>

\* the directories a machine may hold beside the ones that are always there
OptionalDirectories ==
    { <<<<"r">>, DotGit>>,
      <<<<"r">>, DotClaude, CcssSessions>>,
      <<<<"s">>, RepoToken>>,
      HomeProjects \o <<RepoToken>> }

Closure(D) == UNION {Prefixes(d) : d \in D}

NoArgs == [source_dir |-> <<>>, prefix |-> <<>>, target_dir |-> <<>>, dry_run |-> FALSE]

CliInit ==
    /\ fsKind = "real"
    /\ target_dir = TargetOutside
    /\ now = 1
    /\ pc = "idle"
    /\ dry_run = FALSE
    /\ verbose = FALSE
    /\ logged = 0
    /\ queue = <<>>
    /\ entries = <<>>
    /\ cur = NoCur
    /\ result = EmptyResult
    /\ status = "Ok"
    /\ runs = 0
    /\ check = NoCheck
    /\ mutations = 0
    /\ failedOps = {}
    /\ listing = <<>>
    /\ prev = NoRun
    /\ envLog = <<>>
    /\ faults = 0
    /\ conv = NoCall
    /\ \E D \in SUBSET OptionalDirectories, sourceIsFile \in BOOLEAN :
          /\ sourceIsFile => <<<<"s">>, RepoToken>> \notin D
          /\ directories =
                Closure(D \cup {<<<<"r">>, <<"w">>>>, <<<<"s">>>>, Components(HomePath)})
          /\ files =
                IF sourceIsFile
                THEN Put(Put(<<>>, Components(FilePath), [content |-> 1, modified |-> 1]),
                         <<<<"s">>, RepoToken>>, [content |-> 2, modified |-> 1])
                ELSE Put(<<>>, Components(FilePath), [content |-> 1, modified |-> 1])
    /\ start = [files |-> files, directories |-> directories, now |-> now]
    /\ \E repo_arg \in {None, Some(RepoPath), Some(WorkPath), Some(FilePath), Some(<<"r">>)},
          cwd \in {None, Some(WorkPath), Some(SourceRootPath)},
          source_arg \in {None, Some(SourceRootPath)},
          env \in {None, Some(SourceRootPath)},
          home \in {None, Some(HomePath)},
          d \in BOOLEAN :
          cli = [stage |-> "start", repo_arg |-> repo_arg, cwd |-> cwd,
                 source_arg |-> source_arg, env |-> env, home |-> home,
                 dry_run |-> d, repo_dir |-> <<>>, repo_dir_cc_style |-> <<>>,
                 source_root_dir |-> <<>>, source_dir |-> <<>>, target_dir |-> <<>>,
                 error |-> "", called |-> FALSE, args |-> NoArgs]

CliNext ==
    \/ DetermineRepository
    \/ EncodeRepository
    \/ DetermineSource
    \/ Validate
    \/ CallSync

CliSpec == CliInit /\ [][CliNext]_vars

\* ------------------------------------------------------------ init command
MaxInits == 2       \* times the init command is run before the sync command

DotGitkeep == <<".", "g", "i", "t", "k", "e", "e", "p">>

\* variant: the farthest directory, from `from` upwards, that holds .git
find_git_repo_farthest(st, from) ==
    LET hits == {i \in 0..Len(from) : PathExists(st, SubSeq(from, 1, i) \o <<DotGit>>)}
    IN IF hits = {} THEN None
       ELSE Some(SubSeq(from, 1, CHOOSE i \in hits : \A j \in hits : i <= j))

\* find_git_repo, lines 72-89: the nearest directory, from `from` upwards,
\* that holds .git
find_git_repo(st, from) ==
    LET hits == {i \in 0..Len(from) : PathExists(st, SubSeq(from, 1, i) \o <<DotGit>>)}
    IN IF hits = {} THEN None
       ELSE Some(SubSeq(from, 1, CHOOSE i \in hits : \A j \in hits : j <= i))

\* std::fs::write(path, ""): an empty regular file is written, the one that
\* was there is truncated; a directory at the path is an error
WriteEmpty(st, path, t) ==
    IF path \in st.directories \/ Parent(path) \notin st.directories THEN Fail(st)
    ELSE [ok |-> TRUE,
          st |-> [st EXCEPT !.files = Put(@, path, [content |-> 0, modified |-> t])]]

\* one run of the init command, for the record
InitRun(ok, repo, error, st) ==
    [ok |-> ok, repo |-> repo, error |-> error,
     files |-> st.files, directories |-> st.directories]

\* init_command, lines 91-116: the repository given with -r or the nearest
\* one holding .git; .claude/ccss_sessions is created with its ancestors and
\* an empty .gitkeep written into it
InitCommand ==
    /\ cli.stage = "start"
    /\ Len(cli.init) < MaxInits
    /\ LET found == IF cli.init_arg.some THEN Some(Components(cli.init_arg.path))
                    ELSE IF ~cli.cwd.some THEN None
                    ELSE find_git_repo(Store, Components(cli.cwd.path))
           ccss_dir == found.path \o <<DotClaude, CcssSessions>>
           made == RealCreateDirectory(Store, ccss_dir)
           written == WriteEmpty(made.st, ccss_dir \o <<DotGitkeep>>, now)
           run == IF ~found.some
                  THEN InitRun(FALSE, <<>>,
                               IF ~cli.init_arg.some /\ ~cli.cwd.some
                               THEN "Failed to get current directory"
                               ELSE "No git repository found in current directory or parent directories",
                               Store)
                  ELSE IF ~made.ok
                  THEN InitRun(FALSE, found.path,
                               "Failed to create .claude/ccss_sessions directory", Store)
                  ELSE IF ~written.ok
                  THEN InitRun(FALSE, found.path, "Failed to create .gitkeep file", made.st)
                  ELSE InitRun(TRUE, found.path, "", written.st)
       IN /\ cli' = [cli EXCEPT !.init = Append(@, run)]
          /\ files' = run.files
          /\ directories' = run.directories
    /\ UNCHANGED <<engineVars, conv>>

\* the places a machine may hold a .git or a sync directory at
InitDirectories ==
    { <<<<"r">>, DotGit>>,
      <<<<"r">>, <<"w">>, DotGit>>,
      <<<<"r">>, DotClaude, CcssSessions>>,
      <<<<"r">>, <<"w">>, DotClaude, CcssSessions>>,
      <<<<"r">>, DotClaude, CcssSessions, DotGitkeep>> }

\* the regular files it may hold: a .claude and a .gitkeep with content
InitFiles ==
    { <<<<"r">>, DotClaude>>,
      <<<<"r">>, DotClaude, CcssSessions, DotGitkeep>> }

InitInit ==
    /\ fsKind = "real"
    /\ target_dir = TargetOutside
    /\ now = 1
    /\ pc = "idle"
    /\ dry_run = FALSE
    /\ verbose = FALSE
    /\ logged = 0
    /\ queue = <<>>
    /\ entries = <<>>
    /\ cur = NoCur
    /\ result = EmptyResult
    /\ status = "Ok"
    /\ runs = 0
    /\ check = NoCheck
    /\ mutations = 0
    /\ failedOps = {}
    /\ listing = <<>>
    /\ prev = NoRun
    /\ envLog = <<>>
    /\ faults = 0
    /\ conv = NoCall
    /\ \E D \in SUBSET InitDirectories, F \in SUBSET InitFiles :
          /\ directories = Closure(D \cup {<<<<"r">>, <<"w">>>>, <<<<"s">>>>})
          /\ \A f \in F : f \notin directories /\ Parent(f) \in directories
          /\ files = [f \in F |-> [content |-> 1, modified |-> 0]]
    /\ start = [files |-> files, directories |-> directories, now |-> now]
    /\ \E init_arg \in {None, Some(RepoPath), Some(SourceRootPath)},
          repo_arg \in {None, Some(RepoPath)},
          cwd \in {None, Some(WorkPath), Some(RepoPath), Some(SourceRootPath)} :
          cli = [stage |-> "start", repo_arg |-> repo_arg, cwd |-> cwd,
                 init_arg |-> init_arg, init |-> <<>>,
                 source_arg |-> None, env |-> None, home |-> None,
                 dry_run |-> FALSE, repo_dir |-> <<>>, repo_dir_cc_style |-> <<>>,
                 source_root_dir |-> <<>>, source_dir |-> <<>>, target_dir |-> <<>>,
                 error |-> "", called |-> FALSE, args |-> NoArgs]

InitNext ==
    \/ InitCommand
    \/ DetermineRepository
    \/ Tick

InitSpec == InitInit /\ [][InitNext]_vars

\* ------------------------------------------------------------------ claims
SourceFiles == {p \in DOMAIN files : UnderSource(p)}
SourceDirs == {d \in directories : UnderSource(d) /\ d # source_dir}

\* target_root/convert(<top>)/<rest> for the source path source_root/<top>/<rest>
MirrorOf(p) ==
    target_dir \o Components(convert_hyphenated_path(p[Len(source_dir) + 1]))
               \o SubSeq(p, Len(source_dir) + 2, Len(p))

\* the path sync computes for the entry p of the source tree (lines 81-86)
TargetOf(p) == Join(target_dir, convert_directory_name(strip_prefix(p, source_dir).rel))

\* target_dir lies inside source_dir
TargetInSource == StartsWith(target_dir, source_dir)

\* every source entry is given a path outside the source tree
MirrorsOutsideSource ==
    \A p \in SourceFiles \cup SourceDirs : ~UnderSource(TargetOf(p))

\* the source tree as the current call found it
StartSourceFiles == {p \in DOMAIN start.files : UnderSource(p)}
StartSourceDirs == {d \in start.directories : UnderSource(d)}

\* no other actor has touched the store since call k began
QuietSince(k) == \A i \in 1..Len(envLog) : envLog[i].run < k

\* the current call has returned Ok, no storage call failed in it and nobody
\* else touched the store since it began
CallOk == pc = "done" /\ status = "Ok" /\ failedOps = {} /\ QuietSince(runs)

\* the same of the call before it
PrevOk == prev.done /\ prev.status = "Ok" /\ prev.failedOps = {} /\ ~prev.interfered

\* the target held nothing below its root when the current call began
TargetWasEmpty ==
    /\ \A p \in DOMAIN start.files : ~UnderTarget(p)
    /\ \A d \in start.directories : UnderTarget(d) => d = target_dir

\* distinct source entries are mirrored to distinct paths
InjectiveMirror ==
    \A p, q \in SourceFiles \cup SourceDirs :
        /\ p # q => MirrorOf(p) # MirrorOf(q)
        /\ MirrorOf(p) # target_dir
        /\ ~UnderSource(MirrorOf(p))
        /\ ~IsAbsolute(convert_hyphenated_path(p[Len(source_dir) + 1]))

\* every source file has a byte-identical copy at its mirrored path
Mirrored ==
    \A p \in SourceFiles :
        /\ MirrorOf(p) \in DOMAIN files
        /\ files[MirrorOf(p)].content = files[p].content

\* C1: should_copy_file answers true when the target does not exist, and
\* otherwise exactly when the source's modified time is strictly greater than
\* the target's (equal times and a newer target are skipped).
C1_ShouldCopy ==
    check.verdict \in {"copy", "skip"} =>
        (check.verdict = "copy" <=>
            (~check.target_exists \/ check.source_modified > check.target_modified))

\* an existing target with the very modified time of its source was skipped
C1_Witness ==
    /\ check.verdict = "skip"
    /\ check.target_exists
    /\ check.source_modified = check.target_modified

PrevFileCount == prev.result.files_copied + prev.result.files_skipped

\* two calls in a row, the first a real one, nothing else touching the store
TwiceInARow == CallOk /\ PrevOk /\ ~prev.dry /\ QuietSince(runs - 1)

\* no source file is dated later than the clock the first call stamped with,
\* and no copy lands in the source tree
SourcesNotAhead ==
    /\ \A p \in SourceFiles : files[p].modified <= prev.start.now
    /\ MirrorsOutsideSource

\* C3 as stated: the second of two syncs in a row copies nothing and skips
\* the N files of the first, whatever the source modified times are.
C3_Original ==
    TwiceInARow =>
        /\ result.files_copied = 0
        /\ result.files_skipped = PrevFileCount

\* C3 amended: the same, when no source modified time is later than the
\* clock reading the first sync stamps its copies with and no entry is
\* mirrored to a path inside the source tree.
C3_SecondRunSkipsAll ==
    (TwiceInARow /\ SourcesNotAhead) =>
        /\ result.files_copied = 0
        /\ result.files_skipped = PrevFileCount

C3_Witness ==
    /\ TwiceInARow /\ SourcesNotAhead
    /\ prev.result.files_copied = 2
    /\ result.files_skipped = 2

\* what other actors did after the call before the current one began
IsSincePrev(e) == e.run >= runs - 1
SincePrev == SelectSeq(envLog, IsSincePrev)

\* after a completed sync exactly one thing happened: the modified time of
\* the target file T was set, to a value strictly earlier than that of a
\* source file mirrored to T; then sync ran again.
SetBackThenSync(T) ==
    /\ CallOk /\ ~dry_run /\ PrevOk /\ ~prev.dry
    /\ Len(SincePrev) = 1
    /\ SincePrev[1].op = "set_time" /\ SincePrev[1].path = T
    /\ SincePrev[1].run = runs - 1 /\ ~SincePrev[1].during
    /\ \E p \in SourceFiles :
         MirrorOf(p) = T /\ start.files[T].modified < files[p].modified

RecopiedOnly(T) ==
    /\ result.files_copied = 1
    /\ result.files_skipped = PrevFileCount - 1
    /\ \E p \in SourceFiles :
         MirrorOf(p) = T /\ files[T].content = files[p].content

\* C4 as stated: after a completed sync and one target file's modified time
\* set back before its source's, the next sync re-copies exactly that file
\* and skips every other one, and the target then holds the source content.
C4_Original ==
    \A T \in DOMAIN files : SetBackThenSync(T) => RecopiedOnly(T)

\* C4 amended: the same, when no source modified time is later than the
\* clock reading the syncs stamp their copies with and no entry is mirrored
\* to a path inside the source tree.
C4_RecopiesTheStaleFile ==
    \A T \in DOMAIN files : (SetBackThenSync(T) /\ SourcesNotAhead) => RecopiedOnly(T)

C4_Witness ==
    \E T \in DOMAIN files :
        /\ SetBackThenSync(T) /\ SourcesNotAhead
        /\ PrevFileCount = 2
        /\ result.files_skipped = 1

\* C5: a dry-run sync issues no create_directory, copy_file or
\* set_modified_time call and leaves every path, content and modified time of
\* the store as it found them.
C5_DryRunChangesNothing ==
    (pc # "idle" /\ dry_run /\ QuietSince(runs)) =>
        /\ mutations = 0
        /\ files = start.files
        /\ directories = start.directories

\* a dry run that had a directory and a file to report
C5_Witness ==
    /\ pc = "done" /\ dry_run /\ QuietSince(runs) /\ status = "Ok"
    /\ result.files_copied > 0
    /\ result.directories_created > 0

\* C6: a dry-run sync and a non-dry-run sync started from the same store
\* return the same files_copied and directories_created.
C6_DryRunCountsMatch ==
    (/\ CallOk /\ ~dry_run
     /\ PrevOk /\ prev.dry
     /\ prev.start.files = start.files
     /\ prev.start.directories = start.directories) =>
        /\ result.files_copied = prev.result.files_copied
        /\ result.directories_created = prev.result.directories_created

\* C7: a copy_file failure for one file does not abort the sync: an error is
\* recorded for the file and Ok is returned.
C7_CopyFailureIsSoft ==
    (pc = "done" /\ ~dry_run /\ failedOps = {"copy_file"}) =>
        /\ status = "Ok"
        /\ result.errors # <<>>

\* the directories whose listing failed in the current call
FailedListings == {listing[i].dir : i \in {j \in 1..Len(listing) : ~listing[j].ok}}
ListedOk == {listing[i].dir : i \in {j \in 1..Len(listing) : listing[j].ok}}

\* C8: a list_directory failure (of the source root too) skips that
\* directory's subtree only: every directory outside the skipped subtrees is
\* listed, the files of the listed directories are counted (when the target
\* is not itself part of the source tree), Ok is returned and errors stays
\* empty.
C8_ListingFailureSkipsSubtree ==
    (pc = "done" /\ failedOps = {"list_directory"}) =>
        /\ status = "Ok"
        /\ result.errors = <<>>
        /\ \A d \in StartSourceDirs :
              (\A a \in FailedListings : ~StartsWith(d, a)) => d \in ListedOk
        /\ ~TargetInSource =>
              result.files_copied + result.files_skipped =
                 Cardinality({p \in StartSourceFiles : Parent(p) \in ListedOk})

\* one session directory could not be listed, a file of another was copied
C8_Witness ==
    /\ pc = "done" /\ failedOps = {"list_directory"}
    /\ source_dir \notin FailedListings
    /\ result.files_copied = 1

\* C9: a source file removed by another actor after it was listed and before
\* it is copied is recorded in errors, and sync still returns Ok.
C9_VanishedSourceIsSoft ==
    \A i \in 1..Len(envLog) :
        (/\ pc = "done"
         /\ envLog[i].op = "remove" /\ envLog[i].during /\ envLog[i].pending
         /\ envLog[i].run = runs) =>
            /\ status = "Ok"
            /\ \E k \in 1..Len(result.errors) : result.errors[k] = envLog[i].path

\* C10: an entry that cannot be made relative to source_root and a failing
\* existence check make sync return Err; a listing error and a per-file copy
\* error never do.
C10_ErrorPropagation ==
    pc = "done" =>
        /\ (failedOps \cap {"strip_prefix", "exists"} # {} => status = "Err")
        /\ ((failedOps # {} /\ failedOps \subseteq {"list_directory", "copy_file"})
               => status = "Ok")

\* the entries below source_dir are what they were when the call began
SourceUntouched ==
    /\ \A p \in (DOMAIN files) \cup (DOMAIN start.files) :
          UnderSource(p) =>
             /\ p \in DOMAIN files /\ p \in DOMAIN start.files
             /\ files[p] = start.files[p]
    /\ \A d \in directories \cup start.directories :
          UnderSource(d) => (d \in directories /\ d \in start.directories)

\* when the call began every source entry had its mirrored path outside the
\* source tree
StartMirrorsOutsideSource ==
    \A p \in StartSourceFiles \cup (StartSourceDirs \ {source_dir}) :
        ~UnderSource(TargetOf(p))

\* C11 as stated: whatever source_dir and target_dir are, a sync call leaves
\* every path, content and modified time below source_dir as it found them.
C11_Original ==
    (pc # "idle" /\ QuietSince(runs)) => SourceUntouched

\* C11 amended: the same, when target_dir does not lie inside source_dir and
\* no entry is mirrored to a path inside the source tree.
C11_SourceUntouched ==
    (pc # "idle" /\ QuietSince(runs) /\ ~TargetInSource /\ StartMirrorsOutsideSource)
        => SourceUntouched

\* a real run that created a directory and copied two files
C11_Witness ==
    /\ pc = "done" /\ status = "Ok" /\ ~dry_run /\ QuietSince(runs)
    /\ ~TargetInSource /\ StartMirrorsOutsideSource
    /\ result.files_copied = 2
    /\ result.directories_created > 0

\* the target files the current call found and has left different
ChangedTargets ==
    {p \in DOMAIN start.files :
        UnderTarget(p) /\ p \in DOMAIN files /\ files[p] # start.files[p]}

\* C12: sync removes no path of the target tree, and an existing target file
\* is given new content or a new modified time only after a check that found
\* it strictly older than a source file mapped to it.
C12_TargetOnlyRefreshed ==
    (pc # "idle" /\ QuietSince(runs)) =>
        /\ \A d \in start.directories : UnderTarget(d) => d \in directories
        /\ \A p \in DOMAIN start.files : UnderTarget(p) => p \in DOMAIN files
        /\ \A p \in ChangedTargets :
              \E q \in StartSourceFiles :
                  /\ TargetOf(q) = p
                  /\ start.files[q].modified > start.files[p].modified
        /\ (pc = "copy" /\ cur.target \in DOMAIN files) =>
              /\ check.verdict = "copy"
              /\ check.source = cur.source /\ check.target = cur.target
              /\ check.source_modified > check.target_modified

\* a second call rewrote one existing target file and left another as it was
C12_Witness ==
    /\ pc = "done" /\ status = "Ok" /\ QuietSince(runs)
    /\ Cardinality(ChangedTargets) = 1
    /\ \E p \in DOMAIN start.files :
          UnderTarget(p) /\ p \notin ChangedTargets /\ result.files_skipped = 1

\* the identifier prefix the command line hands over: the encoded repository
\* path (main.rs, lines 131 and 188)
identifier_prefix == <<"-", "a", "-", "b">>

\* p lies in a direct child directory of source_dir whose name starts with
\* the prefix
InSelectedDirectory(p) ==
    /\ Len(p) > Len(source_dir) /\ UnderSource(p)
    /\ StartsWith(p[Len(source_dir) + 1], identifier_prefix)
    /\ SubSeq(p, 1, Len(source_dir) + 1) \in start.directories

\* C13: apart from source_dir itself, sync lists, checks and mirrors only
\* what lies in a direct child directory of source_dir whose name starts with
\* identifier_prefix.
C13_OnlyPrefixedDirectories ==
    (pc # "idle" /\ QuietSince(runs) /\ failedOps = {} /\ ~TargetInSource) =>
        /\ \A i \in 1..Len(listing) :
              listing[i].dir # source_dir => InSelectedDirectory(listing[i].dir)
        /\ check.verdict # "none" =>
              /\ Len(check.source) > Len(source_dir) + 1
              /\ InSelectedDirectory(check.source)

\* the character c does not occur in s
NoChar(s, c) == \A i \in 1..Len(s) : s[i] # c

\* the final component of a path (Path::file_name), <<>> when it has none
LastSegment(p) ==
    LET cs == Components(p) IN IF cs = <<>> THEN <<>> ELSE cs[Len(cs)]

\* Path::extension is Some: a dot after the first character of the name
HasExtension(name) == \E i \in 2..Len(name) : name[i] = "."

\* the decoded set holds the path that was encoded
RoundTrips == \E d \in conv.out : SamePath(d, conv.origin)

\* C14 as stated: an absolute path without a hyphen and without a trailing
\* extension is among the paths its token decodes to, dots in other places
\* included.
C14_Original ==
    (/\ conv.op = "decode"
     /\ NoChar(conv.origin, "-")
     /\ ~HasExtension(LastSegment(conv.origin))) => RoundTrips

\* C15: encoding fails exactly for a path that is not absolute and for a
\* path with an extension-like trailing suffix.
C15_EncodeErrors ==
    conv.op = "encode" =>
        (conv.ok <=> (IsAbsolute(conv.input) /\ ~HasExtension(LastSegment(conv.input))))

\* C16: a token starts with a hyphen, and encoding the same path twice gives
\* the same outcome whatever the file system holds at either call.
C16_Deterministic ==
    conv.op = "encode" =>
        /\ conv.ok => (Len(conv.out) > 0 /\ conv.out[1] = "-")
        /\ conv.earlier.again =>
              /\ conv.earlier.ok = conv.ok
              /\ conv.earlier.out = conv.out
              /\ conv.earlier.err = conv.err

\* a name with every hyphen made a separator and one leading separator
\* dropped
Slashed(name) ==
    LET r == Replace(name, <<"-">>, <<"/">>)
    IN IF Len(r) > 0 /\ r[1] = "/" THEN Tail(r) ELSE r

\* C17 as stated: for every name, convert_hyphenated_path changes the hyphens
\* into separators, drops one leading separator and keeps every other
\* character, the dots of recognized suffixes included.
C17_Original ==
    conv.op = "convert" => conv.out = Slashed(conv.input)

\* two dry runs in a row on the same store, one verbose and one not
DryPairDifferingInVerbose ==
    /\ CallOk /\ dry_run
    /\ PrevOk /\ prev.dry
    /\ QuietSince(runs - 1)
    /\ prev.verbose # verbose

C19_QueueRunsEmpty ==
    pc # "idle" =>
        /\ \A i \in 1..Len(listing) : listing[i].dir \in StartSourceDirs
        /\ \A i \in 1..Len(queue) : queue[i] \in StartSourceDirs
        /\ Len(listing) + Len(queue) <= Cardinality(StartSourceDirs)

\* C20: in both stores create_directory makes the missing ancestors and is
\* idempotent: every directory of the store has all its ancestors in the
\* store, whichever calls the engine has made, and creating a directory that
\* is there succeeds and changes nothing.
C20_CreateDirectoryAlike ==
    /\ \A d \in directories : \A q \in Prefixes(d) : exists(Store, q)
    /\ \A d \in directories :
          create_directory(fsKind, Store, d) = [ok |-> TRUE, st |-> Store]

\* every check of the command passes on the store
SetupPasses ==
    /\ cli.repo_arg.some
       \/ (cli.cwd.some /\ find_repo_dir(Store, Components(cli.cwd.path)).some)
    /\ PathExists(Store, cli.source_dir)
    /\ PathIsDir(Store, cli.source_dir)
    /\ PathExists(Store, cli.target_dir)

OnlyStampFailed == failedOps = {"set_modified_time"} /\ QuietSince(runs)

\* C22: when set_modified_time fails after a successful copy_file, sync
\* neither aborts nor records an error: the file counts in files_copied and
\* the entries after it are handled, so the call returns Ok having counted
\* every source file.
C22_StampFailureIsSwallowed ==
    OnlyStampFailed =>
        /\ status # "Err"
        /\ result.errors = <<>>
        /\ result.files_copied >= 1
        /\ (pc = "done" /\ MirrorsOutsideSource) =>
              /\ status = "Ok"
              /\ result.files_copied + result.files_skipped
                     = Cardinality(StartSourceFiles)

\* two files were copied and the stamp of one of them failed
C22_Witness ==
    /\ OnlyStampFailed
    /\ pc = "done" /\ MirrorsOutsideSource
    /\ result.files_copied = 2

\* the store as the current call found it
StartStore == [files |-> start.files, directories |-> start.directories]

\* sync has passed lines 48-61 and has not listed anything yet
JustBegun == pc = "loop" /\ listing = <<>> /\ QuietSince(runs)

\* C23: at the start of sync a missing target_dir is counted once in both
\* modes and created only when dry_run is false; an existing target_dir is
\* neither created nor counted.
C23_TargetRootEnsured ==
    JustBegun =>
        /\ files = start.files
        /\ IF exists(StartStore, target_dir)
           THEN /\ result.directories_created = 0
                /\ directories = start.directories
                /\ mutations = 0
           ELSE /\ result.directories_created = 1
                /\ dry_run => (directories = start.directories /\ mutations = 0)
                /\ ~dry_run => /\ directories = start.directories \cup {target_dir}
                               /\ mutations = 1

\* a dry run has counted the missing target_dir and has not created it
C23_Witness ==
    /\ JustBegun /\ dry_run
    /\ ~exists(StartStore, target_dir)
    /\ result.directories_created = 1
    /\ ~exists(Store, target_dir)

\* the files the current call has written or rewritten
WrittenFiles ==
    {p \in DOMAIN files : p \notin DOMAIN start.files \/ files[p] # start.files[p]}

\* C24: in a non-dry-run sync the parent directory of the target exists in
\* the store when copy_file is called (it was found, or created and counted
\* first), and set_modified_time is called only after copy_file succeeded.
C24_ParentBeforeCopy ==
    /\ pc = "copy" =>
          LET parent == Parent(cur.target)
              par == EnsureParent(fsKind, Store, cur.target, "none")
          IN /\ ~dry_run
             /\ par.ok =>
                   /\ exists(par.st, parent)
                   /\ par.created = (IF exists(Store, parent) THEN 0 ELSE 1)
                   /\ \A f \in CopyFaults :
                         LET copied == copy_file(fsKind, par.st, cur.source, cur.target, now)
                             cp == CopyAndStamp(fsKind, par.st, cur.source, cur.target, now, f)
                         IN cp.calls = (IF f # "copy_file" /\ copied.ok THEN 2 ELSE 1)
    /\ (pc # "idle" /\ QuietSince(runs)) =>
          \A p \in WrittenFiles : exists(Store, Parent(p))

\* a file was copied into a directory that the copy had to create first
C24_Witness ==
    /\ pc = "done" /\ status = "Ok" /\ ~dry_run /\ QuietSince(runs)
    /\ \E p \in WrittenFiles :
          /\ Parent(p) \in directories
          /\ Parent(p) \notin start.directories
          /\ \A i \in 1..Len(listing) : TargetOf(listing[i].dir) # Parent(p)

\* the leading segment as convert_directory_name pushes it
LeadingString(rel) ==
    IF Contains(rel[1], <<"-">>) THEN convert_hyphenated_path(rel[1]) ELSE rel[1]

\* C25: convert_directory_name rewrites the leading segment of the
\* source-relative path only; the later segments, hyphens included, end the
\* target path unchanged, and what stands before them is target_dir joined
\* with the rewritten leading segment.
C25_OnlyLeadingSegmentRewritten ==
    conv.op = "convert_directory" =>
        LET rel == conv.input
            out == conv.target_path
            lead == LeadingString(rel)
            split == Len(out) - (Len(rel) - 1)
        IN /\ split >= 0
           /\ SubSeq(out, split + 1, Len(out)) = Tail(rel)
           /\ SubSeq(out, 1, split) =
                 Join(target_dir, [abs |-> IsAbsolute(lead), comps |-> Components(lead)])

\* -a-b/a-b/a was converted: the leading name became a/b, the second kept
\* its hyphen
C25_Witness ==
    /\ conv.op = "convert_directory"
    /\ conv.input = << <<"-", "a", "-", "b">>, <<"a", "-", "b">>, <<"a">> >>
    /\ conv.target_path = target_dir \o << <<"a">>, <<"b">>, <<"a", "-", "b">>, <<"a">> >>

\* the directories below source_dir when the current call began
StartSubdirectories == StartSourceDirs \ {source_dir}

\* the directory entry at hand is counted exactly when its mirror is missing
CountsMissingMirror ==
    (pc = "entry" /\ Head(entries).is_directory /\ UnderSource(Head(entries).path)) =>
        LET target_path == TargetOf(Head(entries).path)
            r == EnsureDirectory(fsKind, Store, target_path, dry_run, "none")
        IN r.ok => r.created = (IF exists(Store, target_path) THEN 0 ELSE 1)

\* every directory of the source tree was queued and listed, whether its
\* mirror was there or not
EveryDirectoryListed ==
    (CallOk /\ MirrorsOutsideSource) =>
        {listing[i].dir : i \in 1..Len(listing)} = StartSourceDirs

\* the call began with a target that held its root and nothing else
TargetHeldOnlyRoot == TargetWasEmpty /\ exists(StartStore, target_dir)

\* the mirror of every file lies in the mirror of the file's directory
ParentsMirrored ==
    \A p \in SourceFiles :
        Parent(MirrorOf(p)) \in {MirrorOf(d) : d \in SourceDirs} \cup {target_dir}

ListedDirs(l) == {l[i].dir : i \in 1..Len(l)}
ConsideredFiles(l) == UNION {l[i].files : i \in 1..Len(l)}

\* C27: dry_run changes neither the traversal nor the files considered: a
\* non-dry-run sync lists the directories and considers the files that a
\* dry run from the same store has listed and considered.
C27_DryRunSameTraversal ==
    (/\ pc # "idle" /\ ~dry_run /\ QuietSince(runs - 1)
     /\ PrevOk /\ prev.dry) =>
        /\ ListedDirs(listing) \subseteq ListedDirs(prev.listing)
        /\ ConsideredFiles(listing) \subseteq ConsideredFiles(prev.listing)
        /\ CallOk =>
              /\ ListedDirs(listing) = ListedDirs(prev.listing)
              /\ ConsideredFiles(listing) = ConsideredFiles(prev.listing)

\* One fixed order for every listing.
FixedOrder(S) == CHOOSE s \in Orders(S) : TRUE

\* sync run to its end on the store st with every listing returned in
\* FixedOrder and no storage call failing: the store it leaves, the result
\* and whether it returned Ok.  `q` is dirs_to_process, `es` what is left of
\* the entries of the directory at hand.
RECURSIVE Traverse(_, _, _, _, _, _)
Traverse(kind, st, dry, q, es, res) ==
    IF es # <<>>
    THEN LET entry == Head(es)
             rp == strip_prefix(entry.path, source_dir)
             target_path == Join(target_dir, convert_directory_name(rp.rel))
         IN IF ~rp.ok
            THEN [ok |-> FALSE, st |-> st, result |-> res]
            ELSE IF entry.is_directory
            THEN LET r == EnsureDirectory(kind, st, target_path, dry, "none")
                 IN IF ~r.ok \/ Len(target_path) > MaxDepth
                    THEN [ok |-> FALSE, st |-> st, result |-> res]
                    ELSE Traverse(kind, r.st, dry, Append(q, entry.path), Tail(es),
                                  [res EXCEPT !.directories_created = @ + r.created])
            ELSE LET sc == should_copy_file(st, entry.path, target_path, now, "none")
                 IN IF ~sc.ok
                    THEN Traverse(kind, st, dry, q, Tail(es),
                                  [res EXCEPT !.errors = Append(@, entry.path)])
                    ELSE IF ~sc.copy
                    THEN Traverse(kind, st, dry, q, Tail(es),
                                  [res EXCEPT !.files_skipped = @ + 1])
                    ELSE IF dry
                    THEN Traverse(kind, st, dry, q, Tail(es),
                                  [res EXCEPT !.files_copied = @ + 1])
                    ELSE LET c == CopyStep(kind, st, entry.path, target_path, now, "none")
                         IN IF ~c.ok THEN [ok |-> FALSE, st |-> c.st, result |-> res]
                            ELSE Traverse(kind, c.st, dry, q, Tail(es),
                                          [res EXCEPT
                                              !.files_copied = @ + 1,
                                              !.directories_created = @ + c.created])
    ELSE IF q = <<>> THEN [ok |-> TRUE, st |-> st, result |-> res]
    ELSE LET lst == list_directory(kind, st, Head(q))
         IN Traverse(kind, st, dry, Tail(q),
                     IF lst.ok THEN FixedOrder(lst.entries) ELSE <<>>, res)

\* the whole call, lines 46-143, in that order
SyncInFixedOrder(kind, st, dry) ==
    LET r == EnsureDirectory(kind, st, target_dir, dry, "none")
    IN IF ~r.ok THEN [ok |-> FALSE, st |-> st, result |-> EmptyResult]
       ELSE Traverse(kind, r.st, dry, <<source_dir>>, <<>>,
                     [EmptyResult EXCEPT !.directories_created = r.created])

\* content of the files below the target
TargetContents(F) ==
    [p \in {x \in DOMAIN F : UnderTarget(x)} |-> F[p].content]

\* the call has returned what it returns when the listings come in FixedOrder
SameAsInFixedOrder ==
    LET fixed == SyncInFixedOrder(fsKind, StartStore, dry_run)
    IN /\ fixed.ok
       /\ result.files_copied = fixed.result.files_copied
       /\ result.files_skipped = fixed.result.files_skipped
       /\ result.directories_created = fixed.result.directories_created
       /\ Len(result.errors) = Len(fixed.result.errors)
       /\ TargetContents(files) = TargetContents(fixed.st.files)

WithoutOneLeadingHyphen(token) ==
    IF token # <<>> /\ Head(token) = "-" THEN Tail(token) ELSE token

\* C29: claude_code_stype_to_file_path returns a set holding exactly one
\* path for every token: one separator, followed by the token without one
\* leading hyphen (a token without a leading hyphen is taken whole) in which
\* every hyphen is a separator and every other character is kept.
C29_DecodeStripsOneHyphen ==
    conv.op = "decode_token" =>
        LET rest == WithoutOneLeadingHyphen(conv.input)
        IN /\ Cardinality(conv.out) = 1
           /\ \A path \in conv.out :
                  /\ Len(path) = 1 + Len(rest)
                  /\ path[1] = "/"
                  /\ \A i \in 1..Len(rest) :
                         path[i + 1] = IF rest[i] = "-" THEN "/" ELSE rest[i]

\* a token with two leading hyphens was decoded: one of them was stripped
C29_Witness ==
    /\ conv.op = "decode_token"
    /\ conv.input = <<"-", "-", "a">>
    /\ conv.out = {<<"/", "/", "a">>}

\* a token without a leading hyphen was decoded
C29_WitnessNoHyphen ==
    /\ conv.op = "decode_token"
    /\ conv.input = <<"a", "-", "b">>
    /\ conv.out = {<<"/", "a", "/", "b">>}

\* every separator and every dot of s turned into a hyphen
Hyphenated(s) == [i \in 1..Len(s) |-> IF s[i] \in {"/", "."} THEN "-" ELSE s[i]]

\* C30: for every absolute path the encode result is "-" followed by the
\* path without its leading separator in which every separator and every dot
\* is a hyphen, so the token holds neither a separator nor a dot.
C30_EncodeResult ==
    (conv.op = "encode" /\ IsAbsolute(conv.input)) =>
        /\ conv.ok
        /\ conv.out = <<"-">> \o Hyphenated(Tail(conv.input))
        /\ NoChar(conv.out, "/") /\ NoChar(conv.out, ".")

\* the file entries the successful list_directory calls of the listings
\* l returned
RECURSIVE FilesListed(_)
FilesListed(l) ==
    IF l = <<>> THEN 0
    ELSE (IF Head(l).ok THEN Cardinality(Head(l).files) ELSE 0) + FilesListed(Tail(l))

\* C31: whenever sync returns Ok, files_copied + files_skipped + the number
\* of entries of errors is the number of file entries the successful
\* list_directory calls of the call returned.
C31_EveryListedFileAccounted ==
    (pc = "done" /\ status = "Ok") =>
        result.files_copied + result.files_skipped + Len(result.errors)
            = FilesListed(listing)

\* a call returned Ok with one listed file copied and one recorded as an
\* error
C31_Witness ==
    /\ pc = "done" /\ status = "Ok"
    /\ FilesListed(listing) = 2
    /\ result.files_copied = 1
    /\ Len(result.errors) = 1

\* the source files the current call was handed by list_directory
ListedFiles == UNION {listing[i].files : i \in {j \in 1..Len(listing) : listing[j].ok}}

\* C32: within one sync two distinct source files are never given the same
\* target path, so no file of the call is overwritten or shadowed by another
\* source file of the same call.
C32_InjectiveMapping ==
    CallOk =>
        \A p, q \in ListedFiles : p # q => TargetOf(p) # TargetOf(q)

\* C33: for every absolute repository path p whose segments hold no hyphen,
\* convert_hyphenated_path(dir_path_to_claude_code_stype(p)) is p without its
\* leading separator, segments with dots included.
C33_TokenConvertsBack ==
    (conv.op = "convert_token" /\ IsAbsolute(conv.origin) /\ NoChar(conv.origin, "-")) =>
        conv.out = Tail(conv.origin)

\* C35: the protection of domain suffixes does not change the result: for
\* every name that does not contain the text "!DOT!",
\* convert_hyphenated_path(name) is the name with every hyphen made a
\* separator and one leading separator dropped, with or without a
\* recognized suffix in it.
C35_ProtectionChangesNothing ==
    (conv.op = "convert" /\ ~Contains(conv.input, Placeholder)) =>
        conv.out = Slashed(conv.input)

\* the init command has run without -r from the working directory and its
\* last run succeeded
Provisioned ==
    /\ cli.init # <<>>
    /\ cli.init[Len(cli.init)].ok
    /\ ~cli.init_arg.some

\* the repository the last run of init provisioned
ProvisionedRepo == cli.init[Len(cli.init)].repo

\* d is the nearest directory, from the working directory upwards, that held
\* .git when the commands began
NearestWithGit(d) ==
    LET cwd == Components(cli.cwd.path)
    IN /\ StartsWith(cwd, d)
       /\ PathExists(StartStore, d \o <<DotGit>>)
       /\ \A i \in (Len(d) + 1)..Len(cwd) :
              ~PathExists(StartStore, SubSeq(cwd, 1, i) \o <<DotGit>>)

\* C34: after init has succeeded from a working directory,
\* <repo>/.claude/ccss_sessions and its .gitkeep exist; init run again
\* succeeds and leaves the store as the first run left it but for the time of
\* the .gitkeep it writes again; and a sync run
\* from the same working directory without --repo-dir resolves the repository
\* init provisioned, the nearest ancestor holding .git.
C34_InitProvisionsWhatSyncResolves ==
    /\ (cli.init # <<>> /\ cli.init[Len(cli.init)].ok) =>
          /\ ProvisionedRepo \o <<DotClaude, CcssSessions>> \in directories
          /\ ProvisionedRepo \o <<DotClaude, CcssSessions, DotGitkeep>> \in DOMAIN files
    /\ (Len(cli.init) = 2 /\ cli.init[1].ok) =>
          /\ cli.init[2].ok
          /\ cli.init[2].repo = cli.init[1].repo
          /\ cli.init[2].directories = cli.init[1].directories
          /\ DOMAIN cli.init[2].files = DOMAIN cli.init[1].files
          /\ \A f \in DOMAIN cli.init[1].files :
                 /\ cli.init[2].files[f].content = cli.init[1].files[f].content
                 /\ f # ProvisionedRepo \o <<DotClaude, CcssSessions, DotGitkeep>> =>
                        cli.init[2].files[f] = cli.init[1].files[f]
    /\ Provisioned => NearestWithGit(ProvisionedRepo)
    /\ (Provisioned /\ ~cli.repo_arg.some /\ cli.stage # "start") =>
          /\ cli.stage = "repository"
          /\ cli.repo_dir = PathString(ProvisionedRepo)

\* init ran twice from /r/w, provisioned /r, and sync resolved /r
C34_Witness ==
    /\ Provisioned /\ Len(cli.init) = 2 /\ cli.init[1].ok
    /\ ~cli.repo_arg.some /\ cli.cwd = Some(WorkPath)
    /\ <<<<"r">>, DotClaude, CcssSessions>> \notin start.directories
    /\ cli.stage = "repository"
    /\ cli.repo_dir = RepoPath

====
